---- MODULE Spec2Model ----
(***************************************************************************)
(* The navigation reconciler of frontend/app/src/util/AppNavigation.ts:    *)
(* the dispatcher AppNavigation and its two strategies AppNavigationV1     *)
(* (legacy multi-page protocol) and AppNavigationV2 (sectioned protocol),  *)
(* together with a caller that dispatches events and runs the returned     *)
(* side-effect procedures.                                                 *)
(*                                                                         *)
(* The chart component PlotlyFigure of                                     *)
(* frontend/lib/src/components/elements/PlotlyChart/PlotlyChart.tsx: the   *)
(* figure it holds, the widget value it sends, its form-clear listener,    *)
(* its reset timers and the callbacks of the plotting library.             *)
(***************************************************************************)
EXTENDS Naturals, Integers, Sequences, FiniteSets, TLC

(***************************************************************************)
(* Bounds of the model.                                                    *)
(***************************************************************************)
\* longest page list of a NewSession / PagesChanged message, and the most
\* pages a Navigation message carries over all its sections
MaxPages == 2
\* most sections of a Navigation message
MaxSections == 2

(***************************************************************************)
(* Values of the protocol messages.                                        *)
(***************************************************************************)
\* null / undefined of an optional protobuf field
Null == "<null>"

\* IAppPage: pageScriptHash, pageName and isDefault are optional fields; an
\* optional boolean is "true", "false" or Null.
Home == [pageScriptHash |-> "h1", pageName |-> "Home", isDefault |-> "true"]
About == [pageScriptHash |-> "h2", pageName |-> "About", isDefault |-> "false"]
Untitled == [pageScriptHash |-> "h2", pageName |-> Null, isDefault |-> Null]
Pages == {Home, About, Untitled}
Hashes == {"h1", "h2"}

SeqsUpTo(S, n) == UNION {[1..k -> S] : k \in 0..n}

PageLists == SeqsUpTo(Pages, MaxPages)

\* NewSession {appPages, pageScriptHash, config?.hideSidebarNav}
NewSessions ==
  [appPages : PageLists, pageScriptHash : Hashes,
   configHideSidebarNav : {Null, "true", "false"}]

\* PagesChanged {appPages}
PagesChangedMsgs == [appPages : PageLists]

\* PageNotFound {pageName}
PageNotFoundMsgs == [pageName : {Null, "missing"}]

\* Navigation {sections: [{header, appPages}], position, pageScriptHash}
Headers == {Null, "A"}
Sections == [header : Headers, appPages : PageLists]
Positions == {Null, "hidden", "sidebar"}
RECURSIVE Flatten(_)
\* sections.flatMap(section => section.appPages || [])
Flatten(sections) ==
  IF sections = <<>> THEN <<>>
  ELSE Head(sections).appPages \o Flatten(Tail(sections))
\* the messages of at most one section
Navigations ==
  [sections : {<<>>} \cup {<<s>> : s \in Sections},
   position : Positions,
   pageScriptHash : Hashes]
\* the messages of up to MaxSections sections and MaxPages pages, a header
\* absent, empty or "A"
SectionsAnyHeader == [header : Headers \cup {""}, appPages : PageLists]
RECURSIVE SectionListsWithin(_, _)
\* the lists of at most n sections that hold at most budget pages together
SectionListsWithin(n, budget) ==
  IF n = 0 THEN {<<>>}
  ELSE {<<>>} \cup
       UNION {{<<s>> \o rest :
                 rest \in SectionListsWithin(n - 1, budget - Len(s.appPages))} :
              s \in {t \in SectionsAnyHeader : Len(t.appPages) <= budget}}
SectionLists == SectionListsWithin(MaxSections, MaxPages)
SectionedNavigations ==
  [sections : SectionLists, position : Positions, pageScriptHash : Hashes]

(***************************************************************************)
(* JavaScript operators the handlers use.                                  *)
(***************************************************************************)
\* a ?? b
Coalesce(a, b) == IF a = Null THEN b ELSE a
\* a || b on strings: null and "" are falsy
OrElse(a, b) == IF a = Null \/ a = "" THEN b ELSE a
\* truthiness of an optional boolean
Truthy(b) == b = "true"

\* Array.prototype.find by hash: index of the first page with this hash, 0
\* when there is none
FindByHash(pages, hash) ==
  IF \E i \in 1..Len(pages) : pages[i].pageScriptHash = hash
  THEN CHOOSE i \in 1..Len(pages) :
         /\ pages[i].pageScriptHash = hash
         /\ \A j \in 1..(i - 1) : pages[j].pageScriptHash # hash
  ELSE 0

TitleSuffix == " · Streamlit"

(***************************************************************************)
(* Outward effects, as the entries of a call's effect list.                *)
(***************************************************************************)
\* this.parent.onUpdatePageUrl(mainPageName, newPageName, isViewingMainPage)
UpdatePageUrl(mainPageName, newPageName, isViewingMainPage) ==
  [type |-> "onUpdatePageUrl", mainPageName |-> mainPageName,
   newPageName |-> newPageName, isViewingMainPage |-> isViewingMainPage]
\* this.parent.onPageNotFound(pageName)
PageNotFoundCall(pageName) == [type |-> "onPageNotFound", pageName |-> pageName]
\* document.title = title
SetTitle(title) == [type |-> "document.title", title |-> title]
\* this.parent.metricsMgr.enqueue("updateReport", {numPages, isMainPage})
UpdateReport(numPages, isMainPage) ==
  [type |-> "metric", name |-> "updateReport", numPages |-> numPages,
   isMainPage |-> isMainPage]
\* sendMessageToHost({type: "SET_APP_PAGES", appPages})
SetAppPages(appPages) == [type |-> "SET_APP_PAGES", appPages |-> appPages]
\* sendMessageToHost({type: "SET_CURRENT_PAGE_NAME", currentPageName, currentPageScriptHash})
SetCurrentPageName(currentPageName, currentPageScriptHash) ==
  [type |-> "SET_CURRENT_PAGE_NAME", currentPageName |-> currentPageName,
   currentPageScriptHash |-> currentPageScriptHash]
HostMessageTypes == {"SET_APP_PAGES", "SET_CURRENT_PAGE_NAME"}

(***************************************************************************)
(* What a handler call yields: whether it raised, the effects it performed *)
(* while it ran, whether it returned a pair, the state patch of the pair   *)
(* and its side-effect procedure (a closure), and the strategy instance    *)
(* fields after the call.                                                  *)
(***************************************************************************)
NoProc == [kind |-> "none"]
NoPatch == <<>>
\* return undefined
Undefined(self) ==
  [self |-> self, raised |-> FALSE, calls |-> <<>>, returned |-> FALSE,
   patch |-> NoPatch, proc |-> NoProc]
\* an uncaught TypeError after the effects in calls
Raise(self, calls) ==
  [self |-> self, raised |-> TRUE, calls |-> calls, returned |-> FALSE,
   patch |-> NoPatch, proc |-> NoProc]
\* return [patch, proc]
Return(self, calls, patch, proc) ==
  [self |-> self, raised |-> FALSE, calls |-> calls, returned |-> TRUE,
   patch |-> patch, proc |-> proc]

(***************************************************************************)
(* AppNavigationV1, the legacy strategy.                                   *)
(***************************************************************************)
\* the fields of no instance (none was created, or it is unreachable)
NoInstance == [appPages |-> <<>>, currentPageScriptHash |-> Null, hideSidebarNav |-> Null]
\* constructor(parent)
V1Constructor == [appPages |-> <<>>, currentPageScriptHash |-> Null, hideSidebarNav |-> Null]

\* V1MainPage reading the second entry for the first
V1MainPage_SecondEntry(appPages) ==
  IF Len(appPages) >= 2 THEN <<appPages[2]>> ELSE <<>>
\* this.appPages[0]: <<the page>>, or <<>> for undefined
V1MainPage(appPages) ==
  IF Len(appPages) >= 1 THEN <<appPages[1]>> ELSE <<>>

\* V1FindNewPage with findLast for find
V1FindNewPage_Last(appPages, hash) ==
  IF \E i \in 1..Len(appPages) : appPages[i].pageScriptHash = hash
  THEN CHOOSE i \in 1..Len(appPages) :
         /\ appPages[i].pageScriptHash = hash
         /\ \A j \in (i + 1)..Len(appPages) : appPages[j].pageScriptHash # hash
  ELSE 0
\* the page handleNewSession finds for the current hash
V1FindNewPage(appPages, hash) == FindByHash(appPages, hash)

\* isViewingMainPage of handleNewSession
V1IsViewingMainPage(mainPage, hash) == mainPage.pageScriptHash = hash

\* V1NewSessionCalls that also sends SET_APP_PAGES while the handler runs
V1NewSessionCalls_SendsInline(mainPageName, newPageName, isViewingMainPage, numPages) ==
  << UpdatePageUrl(mainPageName, newPageName, isViewingMainPage),
     SetTitle(Coalesce(newPageName, "") \o TitleSuffix),
     UpdateReport(numPages, isViewingMainPage),
     SetAppPages(<<>>) >>
\* V1NewSessionCalls that enqueues the metric before it sets the title
V1NewSessionCalls_MetricFirst(mainPageName, newPageName, isViewingMainPage, numPages) ==
  << UpdatePageUrl(mainPageName, newPageName, isViewingMainPage),
     UpdateReport(numPages, isViewingMainPage),
     SetTitle(Coalesce(newPageName, "") \o TitleSuffix) >>
\* the effects handleNewSession performs while it runs, in order
V1NewSessionCalls(mainPageName, newPageName, isViewingMainPage, numPages) ==
  << UpdatePageUrl(mainPageName, newPageName, isViewingMainPage),
     SetTitle(Coalesce(newPageName, "") \o TitleSuffix),
     UpdateReport(numPages, isViewingMainPage) >>

\* handleNewSession(newSession)
V1HandleNewSession(self, newSession) ==
  LET this == [appPages |-> newSession.appPages,
               currentPageScriptHash |-> newSession.pageScriptHash,
               hideSidebarNav |-> Truthy(Coalesce(newSession.configHideSidebarNav, "false"))]
  IN IF V1MainPage(this.appPages) = <<>>
     THEN \* mainPage is undefined: reading mainPage.pageName throws
          Raise(this, <<>>)
     ELSE
       LET mainPage == V1MainPage(this.appPages)[1]
           mainPageName == Coalesce(mainPage.pageName, "")
           found == V1FindNewPage(this.appPages, this.currentPageScriptHash)
           newPageName == IF found = 0 THEN ""
                          ELSE Coalesce(this.appPages[found].pageName, "")
           isViewingMainPage == V1IsViewingMainPage(mainPage, this.currentPageScriptHash)
       IN Return(this,
                 V1NewSessionCalls(mainPageName, newPageName, isViewingMainPage,
                                   Len(this.appPages)),
                 [hideSidebarNav |-> this.hideSidebarNav,
                  appPages |-> this.appPages,
                  currentPageScriptHash |-> this.currentPageScriptHash],
                 [kind |-> "V1.handleNewSession",
                  newPageName |-> newPageName,
                  isViewingMainPage |-> isViewingMainPage,
                  \* what newSession, the call the procedure belongs to, carried
                  sessionPages |-> newSession.appPages,
                  sessionHash |-> newSession.pageScriptHash])

\* the procedure handleNewSession returns; it reads the instance when it runs
V1NewSessionProc(proc, this) ==
  << SetAppPages(this.appPages),
     SetCurrentPageName(IF proc.isViewingMainPage THEN "" ELSE proc.newPageName,
                        this.currentPageScriptHash) >>

\* handlePagesChanged(pagesChangedMsg)
V1HandlePagesChanged(self, pagesChangedMsg) ==
  LET appPages == pagesChangedMsg.appPages
  IN Return(self, <<>>, [appPages |-> appPages],
            [kind |-> "V1.handlePagesChanged", appPages |-> appPages])

\* V1PagesChangedProc that also sends SET_CURRENT_PAGE_NAME
V1PagesChangedProc_WithPageName(proc) ==
  << SetAppPages(proc.appPages), SetCurrentPageName("", "") >>
\* the procedure handlePagesChanged returns
V1PagesChangedProc(proc) == << SetAppPages(proc.appPages) >>

\* V1FallbackHash taking the last page for the first
V1FallbackHash_LastPage(appPages) ==
  IF Len(appPages) = 0 THEN ""
  ELSE Coalesce(appPages[Len(appPages)].pageScriptHash, "")
\* this.appPages[0]?.pageScriptHash ?? ""
V1FallbackHash(appPages) ==
  IF Len(appPages) = 0 THEN ""
  ELSE Coalesce(appPages[1].pageScriptHash, "")

\* handlePageNotFound(pageNotFound)
V1HandlePageNotFound(self, pageNotFound) ==
  LET currentPageScriptHash == V1FallbackHash(self.appPages)
  IN Return(self, << PageNotFoundCall(pageNotFound.pageName) >>,
            [currentPageScriptHash |-> currentPageScriptHash],
            [kind |-> "V1.handlePageNotFound",
             currentPageScriptHash |-> currentPageScriptHash])

\* V1PageNotFoundProc that sends an empty hash for the fallback hash
V1PageNotFoundProc_EmptyHash(proc) == << SetCurrentPageName("", "") >>
\* the procedure handlePageNotFound returns
V1PageNotFoundProc(proc) == << SetCurrentPageName("", proc.currentPageScriptHash) >>

(***************************************************************************)
(* AppNavigationV2, the sectioned strategy (no fields but the parent).     *)
(***************************************************************************)
\* V2HandleNewSession that handles the session as the legacy strategy does
V2HandleNewSession_Legacy(self, newSession) == V1HandleNewSession(self, newSession)
\* handleNewSession(_newSession)
V2HandleNewSession(self, newSession) ==
  [Undefined(self) EXCEPT !.calls = << SetTitle(TitleSuffix) >>]

RECURSIVE V2NavPageSections_FirstWins(_, _)
\* V2NavPageSections that keeps the first value set for a key
V2NavPageSections_FirstWins(sections, m) ==
  IF sections = <<>> THEN m
  ELSE LET key == OrElse(Head(sections).header, "")
           seen == \E i \in 1..Len(m.keys) : m.keys[i] = key
           keys == IF seen THEN m.keys ELSE Append(m.keys, key)
           m1 == [keys |-> keys,
                  value |-> [k \in {keys[i] : i \in 1..Len(keys)} |->
                              IF k = key /\ ~seen THEN Head(sections).appPages
                              ELSE m.value[k]]]
       IN V2NavPageSections_FirstWins(Tail(sections), m1)
RECURSIVE V2NavPageSections(_, _)
\* the Map built by navPageSections.set(section.header || "", section.appPages)
\* over the sections in order, from the map m: a later set of a key
\* replaces the value and keeps the key's place in keys
V2NavPageSections(sections, m) ==
  IF sections = <<>> THEN m
  ELSE LET key == OrElse(Head(sections).header, "")
           keys == IF \E i \in 1..Len(m.keys) : m.keys[i] = key
                   THEN m.keys ELSE Append(m.keys, key)
           m1 == [keys |-> keys,
                  value |-> [k \in {keys[i] : i \in 1..Len(keys)} |->
                              IF k = key THEN Head(sections).appPages ELSE m.value[k]]]
       IN V2NavPageSections(Tail(sections), m1)
EmptyMap == [keys |-> <<>>, value |-> <<>>]

\* V2HideSidebarNav that hides unless the position is "sidebar"
V2HideSidebarNav_UnlessSidebar(position) == position # "sidebar"
\* hideSidebarNav = position == "hidden"
V2HideSidebarNav(position) == position = "hidden"

\* V2CurrentPageName without the test of isDefault
V2CurrentPageName_AlwaysName(currentPage) == currentPage.pageName
\* currentPageName of handleNavigation
V2CurrentPageName(currentPage) ==
  IF Truthy(currentPage.isDefault) THEN "" ELSE currentPage.pageName

\* handleNavigation(navigationMsg)
V2HandleNavigation(self, navigationMsg) ==
  LET navPageSections == V2NavPageSections(navigationMsg.sections, EmptyMap)
      appPages == Flatten(navigationMsg.sections)
      hideSidebarNav == V2HideSidebarNav(navigationMsg.position)
      found == FindByHash(appPages, navigationMsg.pageScriptHash)
  IN IF found = 0
     THEN \* currentPage is undefined: reading currentPage.pageScriptHash throws
          Raise(self, <<>>)
     ELSE
       LET currentPage == appPages[found]
           currentPageScriptHash == currentPage.pageScriptHash
           currentPageName == V2CurrentPageName(currentPage)
       IN Return(self,
                 << UpdateReport(Len(appPages), currentPage.isDefault),
                    UpdatePageUrl("", currentPageName,
                                  Truthy(Coalesce(currentPage.isDefault, "false"))) >>,
                 [appPages |-> <<>>,
                  navPageSections |-> navPageSections,
                  hideSidebarNav |-> hideSidebarNav,
                  currentPageScriptHash |-> currentPageScriptHash],
                 [kind |-> "V2.handleNavigation",
                  appPages |-> appPages,
                  currentPageName |-> currentPageName,
                  currentPageScriptHash |-> currentPageScriptHash])

\* V2NavigationProc that sends the cleared appPages of the patch
V2NavigationProc_SendsCleared(proc) ==
  << SetAppPages(<<>>),
     SetCurrentPageName(proc.currentPageName, proc.currentPageScriptHash) >>
\* the procedure handleNavigation returns
V2NavigationProc(proc) ==
  << SetAppPages(proc.appPages),
     SetCurrentPageName(proc.currentPageName, proc.currentPageScriptHash) >>

\* handlePagesChanged(_pagesChangedMsg)
V2HandlePagesChanged(self, pagesChangedMsg) == Undefined(self)

\* V2HandlePageNotFound that handles the event as the legacy strategy does
V2HandlePageNotFound_Legacy(self, pageNotFound) == V1HandlePageNotFound(self, pageNotFound)
\* handlePageNotFound(_pageNotFound)
V2HandlePageNotFound(self, pageNotFound) == Undefined(self)

(***************************************************************************)
(* AppNavigation, the dispatcher.  versionManager is "null", "V1" or "V2". *)
(***************************************************************************)
\* InstantiatesV1 without the test for null: a new instance per session
InstantiatesV1_NoNullTest(vm, newSession) == Len(newSession.appPages) > 1
\* InstantiatesV1 with length >= 1 for length > 1
InstantiatesV1_FromOnePage(vm, newSession) ==
  Len(newSession.appPages) >= 1 /\ vm = "null"
\* InstantiatesV1 with "not an AppNavigationV1" for "=== null"
InstantiatesV1_UnlessV1(vm, newSession) ==
  Len(newSession.appPages) > 1 /\ vm # "V1"
\* handleNewSession: whether a new AppNavigationV1 is instantiated
InstantiatesV1(vm, newSession) == Len(newSession.appPages) > 1 /\ vm = "null"

\* InstantiatesV2 with "=== null" for "not an AppNavigationV2"
InstantiatesV2_OnlyFromNull(vm) == vm = "null"
\* handleNavigation: whether a new AppNavigationV2 is instantiated
InstantiatesV2(vm) == vm # "V2"

\* this.versionManager?.handleNewSession(newSession)
ForwardNewSession(vm, self, newSession) ==
  CASE vm = "V1" -> V1HandleNewSession(self, newSession)
    [] vm = "V2" -> V2HandleNewSession(self, newSession)
    [] OTHER -> Undefined(self)

\* this.versionManager?.handlePagesChanged(pagesChangedMsg)
ForwardPagesChanged(vm, self, pagesChangedMsg) ==
  CASE vm = "V1" -> V1HandlePagesChanged(self, pagesChangedMsg)
    [] vm = "V2" -> V2HandlePagesChanged(self, pagesChangedMsg)
    [] OTHER -> Undefined(self)

\* ForwardPageNotFound that falls back to the legacy handler when no
\* strategy is active
ForwardPageNotFound_LegacyDefault(vm, self, pageNotFoundMsg) ==
  CASE vm = "V2" -> V2HandlePageNotFound(self, pageNotFoundMsg)
    [] OTHER -> V1HandlePageNotFound(self, pageNotFoundMsg)
\* this.versionManager?.handlePageNotFound(pageNotFoundMsg)
ForwardPageNotFound(vm, self, pageNotFoundMsg) ==
  CASE vm = "V1" -> V1HandlePageNotFound(self, pageNotFoundMsg)
    [] vm = "V2" -> V2HandlePageNotFound(self, pageNotFoundMsg)
    [] OTHER -> Undefined(self)

\* the host messages a returned procedure sends when it is run; this is
\* the legacy instance as it is at that moment
RunProc(proc, this) ==
  CASE proc.kind = "V1.handleNewSession" -> V1NewSessionProc(proc, this)
    [] proc.kind = "V1.handlePagesChanged" -> V1PagesChangedProc(proc)
    [] proc.kind = "V1.handlePageNotFound" -> V1PageNotFoundProc(proc)
    [] proc.kind = "V2.handleNavigation" -> V2NavigationProc(proc)
    [] OTHER -> <<>>

(***************************************************************************)
(* State.                                                                  *)
(***************************************************************************)
VARIABLES
  versionManager,  \* AppNavigation.versionManager: "null", "V1" or "V2"
  v1,              \* the fields of the AppNavigationV1 instance, NoInstance
                   \* when there is none or nothing refers to it any more
  v1Instances,     \* how many times new AppNavigationV1 was evaluated
  proc,            \* the procedure the last handler call returned, until the
                   \* caller runs it, sets it aside or dispatches again
  held,            \* a procedure the caller set aside to run later
  last,            \* the last step: the call or the procedure run, its
                   \* argument, its result and the effects it performed
  procRan,         \* whether the caller has run any returned procedure
  hostSent,        \* whether any message was sent to the host
  element,         \* the PlotlyChartProto of the mounted chart
  props,           \* the other props of PlotlyFigure: disabled, width,
                   \* height, isFullScreen
  plotlyFigure,    \* the component's state plotlyFigure
  stringValue,     \* the string the widget manager stores for the element
  formClearListener, \* whether resetSelectionsCallback is connected to the
                   \* form-cleared signal of the element's form
  resetTimers,     \* how many setTimeout callbacks of resetSelectionsCallback
                   \* are pending
  inFlight,        \* the figures of the onUpdate callbacks the plotting
                   \* library has yet to make, oldest first
  chartLast        \* the last step of the chart and what it did

navigationVars ==
  <<versionManager, v1, v1Instances, proc, held, last, procRan, hostSent>>
chartVars ==
  <<element, props, plotlyFigure, stringValue, formClearListener, resetTimers,
    inFlight, chartLast>>
vars ==
  <<versionManager, v1, v1Instances, proc, held, last, procRan, hostSent,
    element, props, plotlyFigure, stringValue, formClearListener, resetTimers,
    inFlight, chartLast>>

V1ProcKinds == {"V1.handleNewSession", "V1.handlePagesChanged", "V1.handlePageNotFound"}

\* the legacy instance's fields while the dispatcher or a procedure refers
\* to the instance; an instance nothing refers to is gone
Retain(vm, self, p, h) ==
  IF vm = "V1" \/ p.kind \in V1ProcKinds \/ h.kind \in V1ProcKinds
  THEN self ELSE NoInstance

\* no chart is mounted
ChartUnmounted ==
  /\ element = <<>>
  /\ props = <<>>
  /\ plotlyFigure = <<>>
  /\ stringValue = Null
  /\ formClearListener = FALSE
  /\ resetTimers = 0
  /\ inFlight = <<>>
  /\ chartLast = [kind |-> "none", event |-> <<>>, activated |-> FALSE,
                  set |-> FALSE, value |-> Null, replaced |-> Null,
                   afterDoubleClick |-> FALSE]

\* constructor of AppNavigation
InitNavigation ==
  /\ versionManager = "null"
  /\ v1 = NoInstance
  /\ v1Instances = 0
  /\ proc = NoProc
  /\ held = NoProc
  /\ last = [kind |-> "init", op |-> "none", arg |-> <<>>, vmBefore |-> "null",
             raised |-> FALSE, returned |-> FALSE, patch |-> NoPatch, calls |-> <<>>]
  /\ procRan = FALSE
  /\ hostSent = FALSE

\* a new reconciler, no chart on the page
Init == InitNavigation /\ ChartUnmounted

\* the state after a handler call op(arg) that selected strategy vm and
\* yielded r
AfterCall(op, arg, vm, r) ==
  /\ versionManager' = vm
  /\ proc' = r.proc
  /\ v1' = Retain(vm, r.self, r.proc, held)
  /\ last' = [kind |-> "call", op |-> op, arg |-> arg, vmBefore |-> versionManager,
              raised |-> r.raised, returned |-> r.returned, patch |-> r.patch,
              calls |-> r.calls]
  /\ hostSent' = (hostSent \/ \E i \in 1..Len(r.calls) : r.calls[i].type \in HostMessageTypes)
  /\ UNCHANGED <<held, procRan>>
  /\ UNCHANGED chartVars

\* AppNavigation.handleNewSession(newSession)
HandleNewSession(newSession) ==
  LET inst == InstantiatesV1(versionManager, newSession)
      vm == IF inst THEN "V1" ELSE versionManager
      self == IF inst THEN V1Constructor ELSE v1
  IN /\ v1Instances' = IF inst THEN v1Instances + 1 ELSE v1Instances
     /\ AfterCall("NewSession", newSession, vm, ForwardNewSession(vm, self, newSession))

\* AppNavigation.handlePagesChanged(pagesChangedMsg)
HandlePagesChanged(pagesChangedMsg) ==
  /\ UNCHANGED v1Instances
  /\ AfterCall("PagesChanged", pagesChangedMsg, versionManager,
               ForwardPagesChanged(versionManager, v1, pagesChangedMsg))

\* AppNavigation.handleNavigation(navigation)
HandleNavigation(navigation) ==
  LET vm == IF InstantiatesV2(versionManager) THEN "V2" ELSE versionManager
  IN /\ UNCHANGED v1Instances
     /\ AfterCall("Navigation", navigation, vm,
                  IF vm = "V2" THEN V2HandleNavigation(v1, navigation)
                  ELSE \* neither null nor AppNavigationV1 has handleNavigation
                       Raise(v1, <<>>))

\* AppNavigation.handlePageNotFound(pageNotFoundMsg)
HandlePageNotFound(pageNotFoundMsg) ==
  /\ UNCHANGED v1Instances
  /\ AfterCall("PageNotFound", pageNotFoundMsg, versionManager,
               ForwardPageNotFound(versionManager, v1, pageNotFoundMsg))

\* the state after the caller ran procedure p
AfterRun(p, deferred) ==
  LET msgs == RunProc(p, v1)
  IN /\ last' = [kind |-> "run", op |-> p.kind, arg |-> p, vmBefore |-> versionManager,
                 raised |-> FALSE, returned |-> FALSE, patch |-> NoPatch, calls |-> msgs]
     /\ procRan' = TRUE
     /\ hostSent' = (hostSent \/ msgs # <<>>)
     /\ UNCHANGED <<versionManager, v1Instances>>
     /\ UNCHANGED chartVars

\* the caller runs the procedure the last call returned
RunEffect ==
  /\ proc # NoProc
  /\ AfterRun(proc, FALSE)
  /\ proc' = NoProc
  /\ v1' = Retain(versionManager, v1, NoProc, held)
  /\ UNCHANGED held

\* the caller sets the procedure returned for a NewSession aside and goes
\* on dispatching
Defer ==
  /\ proc.kind = "V1.handleNewSession"
  /\ held = NoProc
  /\ held' = proc
  /\ proc' = NoProc
  /\ UNCHANGED <<versionManager, v1, v1Instances, last, procRan, hostSent>>
  /\ UNCHANGED chartVars

\* the caller runs the procedure it had set aside
RunHeld ==
  /\ held # NoProc
  /\ AfterRun(held, TRUE)
  /\ held' = NoProc
  /\ v1' = Retain(versionManager, v1, proc, NoProc)
  /\ UNCHANGED proc

\* every event, each returned procedure run at once or dropped
Next ==
  \/ \E newSession \in NewSessions : HandleNewSession(newSession)
  \/ \E pagesChangedMsg \in PagesChangedMsgs : HandlePagesChanged(pagesChangedMsg)
  \/ \E navigation \in Navigations : HandleNavigation(navigation)
  \/ \E pageNotFoundMsg \in PageNotFoundMsgs : HandlePageNotFound(pageNotFoundMsg)
  \/ RunEffect

Spec == Init /\ [][Next]_vars

\* the legacy protocol (a server that sends no Navigation), the caller free
\* to run a returned procedure after later events
NextDeferred ==
  \/ \E newSession \in NewSessions : HandleNewSession(newSession)
  \/ \E pagesChangedMsg \in PagesChangedMsgs : HandlePagesChanged(pagesChangedMsg)
  \/ \E pageNotFoundMsg \in PageNotFoundMsgs : HandlePageNotFound(pageNotFoundMsg)
  \/ RunEffect
  \/ Defer
  \/ RunHeld

SpecDeferred == Init /\ [][NextDeferred]_vars

\* a fresh reconciler that receives one Navigation message
NextNavigation ==
  \/ /\ last.kind = "init"
     /\ \E navigation \in SectionedNavigations : HandleNavigation(navigation)
  \/ RunEffect

SpecNavigation == Init /\ [][NextNavigation]_vars

(***************************************************************************)
(* Properties.                                                             *)
(***************************************************************************)
\* the last step was the handler call op
IsCall(op) == last.kind = "call" /\ last.op = op

\* C1: after every Navigation event, whatever strategy was active before
\* it (none, legacy or sectioned) and whatever the message, the active
\* strategy is the sectioned one.
C1_NavigationSelectsV2 == IsCall("Navigation") => versionManager = "V2"
\* a Navigation event that arrived while the legacy strategy was active
C1_Witness ==
  IsCall("Navigation") /\ last.vmBefore = "V1" /\ versionManager = "V2"

\* C2: while no Navigation has been handled, the legacy strategy is
\* instantiated at most once, at a NewSession with more than one page that
\* finds no strategy active; a NewSession that finds the legacy strategy
\* active is forwarded to that instance, whatever its page count, and the
\* instance's fields are then those of the new session.
C2_LegacyInstantiatedOnce ==
  /\ [](versionManager # "V2" =>
         /\ v1Instances <= 1
         /\ (versionManager = "V1") = (v1Instances = 1)
         /\ (IsCall("NewSession") /\ last.vmBefore = "null"
               /\ Len(last.arg.appPages) > 1) => versionManager = "V1"
         /\ (IsCall("NewSession") /\ last.vmBefore = "V1") =>
               /\ versionManager = "V1"
               /\ v1.appPages = last.arg.appPages
               /\ v1.currentPageScriptHash = last.arg.pageScriptHash
               /\ v1.hideSidebarNav = (last.arg.configHideSidebarNav = "true"))
  /\ [][(versionManager' # "V2" /\ v1Instances' # v1Instances) =>
          /\ v1Instances = 0 /\ v1Instances' = 1
          /\ versionManager = "null"
          /\ last'.kind = "call" /\ last'.op = "NewSession"
          /\ Len(last'.arg.appPages) > 1]_vars
\* a single-page NewSession handled by the instance an earlier one created
C2_Witness ==
  /\ IsCall("NewSession") /\ last.vmBefore = "V1"
  /\ Len(last.arg.appPages) = 1
  /\ v1Instances = 1 /\ v1.appPages = last.arg.appPages

\* C3: a NewSession with exactly one page that finds no strategy active
\* returns no state update, performs no callback, metric or host message,
\* and leaves the reconciler without a strategy.
C3_SinglePageSessionNoOp ==
  (IsCall("NewSession") /\ last.vmBefore = "null" /\ Len(last.arg.appPages) = 1) =>
    /\ ~last.returned /\ ~last.raised
    /\ last.patch = NoPatch /\ proc = NoProc
    /\ last.calls = <<>>
    /\ versionManager = "null" /\ v1Instances = 0
C3_Witness ==
  /\ IsCall("NewSession") /\ last.vmBefore = "null"
  /\ Len(last.arg.appPages) = 1 /\ versionManager = "null"

\* C4: once the sectioned strategy is active it stays active over every
\* later step; the legacy strategy never becomes active again.
C4_PromotionOneWay ==
  [][versionManager = "V2" =>
       (versionManager' = "V2" /\ v1Instances' = v1Instances)]_vars
\* a multi-page NewSession handled while the sectioned strategy was active
C4_Witness ==
  /\ IsCall("NewSession") /\ last.vmBefore = "V2"
  /\ Len(last.arg.appPages) > 1 /\ versionManager = "V2"

\* C5: PagesChanged and PageNotFound that find no strategy active return
\* no state update, invoke neither callback, send no host message and
\* leave the reconciler without a strategy.
C5_NoStrategyNoOp ==
  ((IsCall("PagesChanged") \/ IsCall("PageNotFound")) /\ last.vmBefore = "null") =>
    /\ ~last.returned /\ ~last.raised
    /\ last.patch = NoPatch /\ proc = NoProc
    /\ last.calls = <<>>
    /\ versionManager = "null"
C5_Witness ==
  /\ IsCall("PageNotFound") /\ last.vmBefore = "null"
  /\ last.arg.pageName = "missing" /\ versionManager = "null"

\* C6 as stated: no handler call raises, whatever the payload and the state.
C6_NoHandlerRaises == ~last.raised
\* C6 amended: a handler call raises exactly when it is a NewSession with
\* an empty page list forwarded to the legacy strategy, or a Navigation
\* none of whose pages has the message's pageScriptHash; the legacy
\* lookups that find no page yield the empty string.
C6_RaisesOnlyWithoutPage ==
  last.kind = "call" =>
    /\ last.raised =
         \/ /\ IsCall("NewSession") /\ last.vmBefore = "V1"
            /\ last.arg.appPages = <<>>
         \/ /\ IsCall("Navigation")
            /\ \A k \in 1..Len(last.arg.sections) :
                 \A i \in 1..Len(last.arg.sections[k].appPages) :
                   last.arg.sections[k].appPages[i].pageScriptHash
                     # last.arg.pageScriptHash
    /\ (/\ IsCall("NewSession") /\ versionManager = "V1"
        /\ last.arg.appPages # <<>>
        /\ \A i \in 1..Len(last.arg.appPages) :
             last.arg.appPages[i].pageScriptHash # last.arg.pageScriptHash)
         => /\ last.returned
            /\ last.calls[1].type = "onUpdatePageUrl"
            /\ last.calls[1].newPageName = ""
    /\ (IsCall("PageNotFound") /\ last.vmBefore = "V1" /\ v1.appPages = <<>>)
         => /\ last.returned
            /\ last.patch.currentPageScriptHash = ""
\* an empty NewSession raised in the legacy strategy
C6_Witness ==
  /\ IsCall("NewSession") /\ last.vmBefore = "V1"
  /\ last.arg.appPages = <<>> /\ last.raised

\* the fields of AppNavigationState
StateFields == {"hideSidebarNav", "appPages", "currentPageScriptHash", "navPageSections"}

\* C7: a handler call returns nothing or a pair whose patch sets at least
\* one field of the navigation state; no host message is sent while a
\* handler runs, so none is sent before the caller runs a procedure.
C7_PatchOrNothingNoHostMessage ==
  /\ last.kind = "call" =>
       /\ IF last.returned
          THEN DOMAIN last.patch # {} /\ DOMAIN last.patch \subseteq StateFields
          ELSE last.patch = NoPatch /\ proc = NoProc
       /\ \A i \in 1..Len(last.calls) : last.calls[i].type \notin HostMessageTypes
  /\ last.kind = "run" =>
       \A i \in 1..Len(last.calls) : last.calls[i].type \in HostMessageTypes
  /\ hostSent => procRan
\* a second pair returned to a caller that has run no procedure
C7_Witness ==
  /\ last.kind = "call" /\ last.returned /\ last.vmBefore # "null"
  /\ ~procRan /\ ~hostSent

\* C8: the legacy handleNewSession on a non-empty page list returns the
\* session's hideSidebarNav (false without config), page list and hash,
\* and calls onUpdatePageUrl once, with the first page's name, the name of
\* the first page that has the session's hash ("" when there is none) and
\* whether the first page has that hash.
C8_LegacyNewSessionResult ==
  (IsCall("NewSession") /\ versionManager = "V1" /\ last.arg.appPages # <<>>) =>
    LET pages == last.arg.appPages
        hash == last.arg.pageScriptHash
        matches == {i \in 1..Len(pages) : pages[i].pageScriptHash = hash}
        Name(p) == IF p.pageName = Null THEN "" ELSE p.pageName
        urlCalls == {i \in 1..Len(last.calls) : last.calls[i].type = "onUpdatePageUrl"}
    IN /\ last.returned
       /\ last.patch = [hideSidebarNav |-> (last.arg.configHideSidebarNav = "true"),
                        appPages |-> pages,
                        currentPageScriptHash |-> hash]
       /\ Cardinality(urlCalls) = 1
       /\ \A i \in urlCalls :
            /\ last.calls[i].mainPageName = Name(pages[1])
            /\ last.calls[i].newPageName =
                 IF matches = {} THEN ""
                 ELSE Name(pages[CHOOSE m \in matches : \A k \in matches : m <= k])
            /\ last.calls[i].isViewingMainPage = (pages[1].pageScriptHash = hash)
            /\ last.calls[i].isViewingMainPage =>
                 last.calls[i].newPageName = last.calls[i].mainPageName
\* a session two of whose pages have the session's hash
C8_Witness ==
  /\ IsCall("NewSession") /\ versionManager = "V1" /\ last.returned
  /\ Len(last.arg.appPages) = 2
  /\ last.arg.appPages[1].pageScriptHash = last.arg.pageScriptHash
  /\ last.arg.appPages[2].pageScriptHash = last.arg.pageScriptHash
  /\ last.arg.appPages[1] # last.arg.appPages[2]

\* C9: the legacy handleNewSession performs, while it runs, exactly
\* onUpdatePageUrl, then the title "<newPageName> · Streamlit", then one
\* updateReport metric with the page count and isViewingMainPage; its
\* procedure, when run, sends SET_APP_PAGES and then SET_CURRENT_PAGE_NAME.
C9_LegacyNewSessionOrder ==
  /\ (IsCall("NewSession") /\ versionManager = "V1" /\ last.arg.appPages # <<>>) =>
       /\ Len(last.calls) = 3
       /\ last.calls[1].type = "onUpdatePageUrl"
       /\ last.calls[2] = [type |-> "document.title",
                           title |-> last.calls[1].newPageName \o " · Streamlit"]
       /\ last.calls[3] = [type |-> "metric", name |-> "updateReport",
                           numPages |-> Len(last.arg.appPages),
                           isMainPage |-> last.calls[1].isViewingMainPage]
  /\ (last.kind = "run" /\ last.op = "V1.handleNewSession") =>
       /\ Len(last.calls) = 2
       /\ last.calls[1].type = "SET_APP_PAGES"
       /\ last.calls[2].type = "SET_CURRENT_PAGE_NAME"
\* the procedure of a legacy handleNewSession has been run
C9_Witness ==
  /\ last.kind = "run" /\ last.op = "V1.handleNewSession"
  /\ Len(last.calls) = 2 /\ hostSent

\* C10: whenever the procedure returned by the legacy handleNewSession for
\* a session is run, it sends SET_APP_PAGES with that session's page list
\* and SET_CURRENT_PAGE_NAME with that session's hash and the name of that
\* session's current page ("" on the main page).
C10_ProcedureSendsItsSession ==
  (last.kind = "run" /\ last.op = "V1.handleNewSession") =>
    LET pages == last.arg.sessionPages
        hash == last.arg.sessionHash
        matches == {i \in 1..Len(pages) : pages[i].pageScriptHash = hash}
        Name(p) == IF p.pageName = Null THEN "" ELSE p.pageName
        currentPageName ==
          IF pages[1].pageScriptHash = hash \/ matches = {} THEN ""
          ELSE Name(pages[CHOOSE m \in matches : \A k \in matches : m <= k])
    IN last.calls =
         << [type |-> "SET_APP_PAGES", appPages |-> pages],
            [type |-> "SET_CURRENT_PAGE_NAME",
             currentPageName |-> currentPageName,
             currentPageScriptHash |-> hash] >>

\* C11: the legacy handlePageNotFound calls onPageNotFound with the
\* message's pageName while it runs and nothing else, returns the patch
\* {currentPageScriptHash: fallback}, fallback being the hash of the first
\* page the strategy holds or "" when it holds none, and its procedure
\* sends exactly SET_CURRENT_PAGE_NAME with an empty name and that fallback.
C11_LegacyPageNotFound ==
  LET fallback == IF v1.appPages = <<>> THEN ""
                  ELSE v1.appPages[1].pageScriptHash
  IN /\ (IsCall("PageNotFound") /\ last.vmBefore = "V1") =>
          /\ last.returned
          /\ last.calls = << [type |-> "onPageNotFound",
                              pageName |-> last.arg.pageName] >>
          /\ last.patch = [currentPageScriptHash |-> fallback]
     /\ (last.kind = "run" /\ last.op = "V1.handlePageNotFound") =>
          last.calls = << [type |-> "SET_CURRENT_PAGE_NAME",
                           currentPageName |-> "",
                           currentPageScriptHash |-> fallback] >>
\* the procedure was run for a strategy whose first and last page differ
\* in hash
C11_Witness ==
  /\ last.kind = "run" /\ last.op = "V1.handlePageNotFound"
  /\ Len(v1.appPages) = 2
  /\ v1.appPages[1].pageScriptHash # v1.appPages[2].pageScriptHash

\* C12: the legacy handlePagesChanged returns a patch that sets appPages
\* alone, to the message's page list, performs no callback and no metric,
\* and its procedure sends exactly SET_APP_PAGES with that page list.
C12_LegacyPagesChanged ==
  /\ (IsCall("PagesChanged") /\ last.vmBefore = "V1") =>
       /\ last.returned
       /\ last.calls = <<>>
       /\ last.patch = [appPages |-> last.arg.appPages]
       /\ DOMAIN last.patch = {"appPages"}
       /\ RunProc(proc, v1) =
            << [type |-> "SET_APP_PAGES", appPages |-> last.arg.appPages] >>
  /\ (last.kind = "run" /\ last.op = "V1.handlePagesChanged") =>
       /\ Len(last.calls) = 1
       /\ last.calls[1].type = "SET_APP_PAGES"
\* the procedure of a handlePagesChanged with a non-empty list was run
C12_Witness ==
  /\ last.kind = "run" /\ last.op = "V1.handlePagesChanged"
  /\ Len(last.calls) = 1 /\ last.calls[1].appPages # <<>>

RECURSIVE PagesBefore(_, _)
\* how many pages the first k sections of secs hold
PagesBefore(secs, k) ==
  IF k = 0 THEN 0 ELSE PagesBefore(secs, k - 1) + Len(secs[k].appPages)

\* C13: the navPageSections a Navigation returns has one key per header
\* of the message ("" for an absent or empty header), each mapped to the
\* page list of the last section with that header, the keys in message
\* order when the headers are distinct; the list its procedure sends in
\* SET_APP_PAGES is the sections' page lists concatenated in message order.
C13_SectionsAndFlattenedPages ==
  (IsCall("Navigation") /\ last.returned) =>
    LET secs == last.arg.sections
        Key(k) == IF secs[k].header \in {Null, ""} THEN "" ELSE secs[k].header
        keySet == {Key(k) : k \in 1..Len(secs)}
        m == last.patch.navPageSections
        sent == RunProc(proc, v1)
    IN /\ {m.keys[i] : i \in 1..Len(m.keys)} = keySet
       /\ Len(m.keys) = Cardinality(keySet)
       /\ DOMAIN m.value = keySet
       /\ \A k \in 1..Len(secs) :
            (\A j \in (k + 1)..Len(secs) : Key(j) # Key(k)) =>
              m.value[Key(k)] = secs[k].appPages
       /\ Cardinality(keySet) = Len(secs) =>
            \A k \in 1..Len(secs) : m.keys[k] = Key(k)
       /\ sent[1].type = "SET_APP_PAGES"
       /\ Len(sent[1].appPages) = PagesBefore(secs, Len(secs))
       /\ \A k \in 1..Len(secs) : \A i \in 1..Len(secs[k].appPages) :
            sent[1].appPages[PagesBefore(secs, k - 1) + i] = secs[k].appPages[i]
\* a message whose absent and empty header meet in one key, with
\* different page lists
C13_Witness ==
  /\ IsCall("Navigation") /\ last.returned
  /\ Len(last.arg.sections) = 2
  /\ last.arg.sections[1].header = Null /\ last.arg.sections[2].header = ""
  /\ last.arg.sections[1].appPages # last.arg.sections[2].appPages
  /\ last.arg.sections[1].appPages # <<>> /\ last.arg.sections[2].appPages # <<>>
  /\ last.patch.navPageSections.keys = <<"">>

\* some page of some section of the Navigation message msg has the
\* message's pageScriptHash
HasCurrentPage(msg) ==
  \E k \in 1..Len(msg.sections) : \E i \in 1..Len(msg.sections[k].appPages) :
    msg.sections[k].appPages[i].pageScriptHash = msg.pageScriptHash

\* C14: a Navigation whose pageScriptHash matches a page returns a patch
\* with an empty appPages and the matched hash, and its procedure sends
\* SET_APP_PAGES with the full flattened page list and then
\* SET_CURRENT_PAGE_NAME with the hash of the patch.
C14_ClearedPatchFullMessage ==
  /\ (IsCall("Navigation") /\ HasCurrentPage(last.arg)) =>
       LET sent == RunProc(proc, v1)
       IN /\ last.returned
          /\ last.patch.appPages = <<>>
          /\ last.patch.currentPageScriptHash = last.arg.pageScriptHash
          /\ Len(sent) = 2
          /\ sent[1] = [type |-> "SET_APP_PAGES",
                        appPages |-> Flatten(last.arg.sections)]
          /\ sent[1].appPages # <<>>
          /\ sent[2].type = "SET_CURRENT_PAGE_NAME"
          /\ sent[2].currentPageScriptHash = last.patch.currentPageScriptHash
  /\ (last.kind = "run" /\ last.op = "V2.handleNavigation") =>
       /\ Len(last.calls) = 2
       /\ last.calls[1].type = "SET_APP_PAGES"
       /\ last.calls[2].type = "SET_CURRENT_PAGE_NAME"
       /\ \E i \in 1..Len(last.calls[1].appPages) :
            last.calls[1].appPages[i].pageScriptHash
              = last.calls[2].currentPageScriptHash
\* the procedure of a Navigation with two pages was run
C14_Witness ==
  /\ last.kind = "run" /\ last.op = "V2.handleNavigation"
  /\ Len(last.calls) = 2 /\ Len(last.calls[1].appPages) = 2

\* C15: a Navigation whose pageScriptHash matches a page calls
\* onUpdatePageUrl once, with an empty main-page name, with "" for a
\* default page and the page's name otherwise, and with the page's default
\* flag (false when unset); its procedure sends that same name in
\* SET_CURRENT_PAGE_NAME.
C15_NavigationPageUrl ==
  (IsCall("Navigation") /\ HasCurrentPage(last.arg)) =>
    LET flat == Flatten(last.arg.sections)
        matches == {i \in 1..Len(flat) :
                      flat[i].pageScriptHash = last.arg.pageScriptHash}
        page == flat[CHOOSE m \in matches : \A k \in matches : m <= k]
        name == IF page.isDefault = "true" THEN "" ELSE page.pageName
        urlCalls == {i \in 1..Len(last.calls) : last.calls[i].type = "onUpdatePageUrl"}
        sent == RunProc(proc, v1)
    IN /\ Cardinality(urlCalls) = 1
       /\ \A i \in urlCalls :
            last.calls[i] = [type |-> "onUpdatePageUrl", mainPageName |-> "",
                             newPageName |-> name,
                             isViewingMainPage |-> (page.isDefault = "true")]
       /\ sent[2].type = "SET_CURRENT_PAGE_NAME"
       /\ sent[2].currentPageName = name
\* the matched page is a default page that has a name
C15_Witness ==
  /\ IsCall("Navigation") /\ last.returned
  /\ last.arg.pageScriptHash = Home.pageScriptHash
  /\ \E i \in 1..Len(last.calls) :
       /\ last.calls[i].type = "onUpdatePageUrl"
       /\ last.calls[i].newPageName = "" /\ last.calls[i].isViewingMainPage

\* C16: the hideSidebarNav of the patch a Navigation returns is true
\* exactly when the message's position is "hidden"; it is false for any
\* other position and for none.
C16_HiddenPosition ==
  (IsCall("Navigation") /\ last.returned) =>
    /\ last.patch.hideSidebarNav \in BOOLEAN
    /\ last.patch.hideSidebarNav = (last.arg.position = "hidden")
\* a message with no position
C16_Witness ==
  /\ IsCall("Navigation") /\ last.returned
  /\ last.arg.position = Null /\ last.patch.hideSidebarNav = FALSE

\* C17: while the sectioned strategy is active, a PagesChanged or a
\* PageNotFound event returns nothing, raises nothing, makes no call
\* (onPageNotFound included), yields no procedure that could send a host
\* message, and leaves the sectioned strategy active.
C17_SectionedIgnoresPageEvents ==
  ((IsCall("PagesChanged") \/ IsCall("PageNotFound")) /\ last.vmBefore = "V2") =>
    /\ ~last.returned /\ ~last.raised
    /\ last.patch = NoPatch
    /\ last.calls = <<>>
    /\ proc = NoProc
    /\ versionManager = "V2"
\* a PageNotFound under the sectioned strategy of a reconciler that had a
\* legacy strategy before
C17_Witness ==
  /\ IsCall("PageNotFound") /\ last.vmBefore = "V2" /\ v1Instances = 1

\* C18: while the sectioned strategy is active, a NewSession event returns
\* nothing, yields no procedure, and its only call sets the document title
\* to the title of an empty page name.
C18_SectionedNewSession ==
  (IsCall("NewSession") /\ last.vmBefore = "V2") =>
    /\ ~last.returned /\ ~last.raised
    /\ last.patch = NoPatch
    /\ last.calls = << [type |-> "document.title", title |-> " · Streamlit"] >>
    /\ proc = NoProc
    /\ versionManager = "V2"
\* a NewSession with two pages and a config under the sectioned strategy
C18_Witness ==
  /\ IsCall("NewSession") /\ last.vmBefore = "V2"
  /\ Len(last.arg.appPages) = 2 /\ last.arg.configHideSidebarNav = "true"
  /\ last.arg.pageScriptHash = last.arg.appPages[2].pageScriptHash

\* C19: when the procedure of a call is run right after the call, every
\* SET_CURRENT_PAGE_NAME it sends carries the currentPageScriptHash of the
\* patch that call returned, which is the caller's currentPageScriptHash
\* once the patch is applied.
C19_SentHashIsPatchedHash ==
  [][ (last.kind = "call" /\ last'.kind = "run") =>
        \A i \in 1..Len(last'.calls) :
          last'.calls[i].type = "SET_CURRENT_PAGE_NAME" =>
            /\ "currentPageScriptHash" \in DOMAIN last.patch
            /\ last'.calls[i].currentPageScriptHash = last.patch.currentPageScriptHash
    ]_vars
\* the procedure of a PageNotFound sent the hash of a page
C19_Witness ==
  /\ last.kind = "run" /\ last.op = "V1.handlePageNotFound"
  /\ Len(last.calls) = 1 /\ last.calls[1].currentPageScriptHash \in Hashes

\* C20: after a NewSession or a PagesChanged event handled by the legacy
\* strategy, the page list the strategy holds is the page list of that
\* event.
C20_HeldPagesAreLatest ==
  ((IsCall("NewSession") \/ IsCall("PagesChanged")) /\ versionManager = "V1") =>
    v1.appPages = last.arg.appPages

\* C28: a Navigation event that raises leaves the active strategy as it was
\* before the event: a legacy strategy and the pages it holds are kept, and
\* a reconciler with no strategy still has none.
C28_FailedNavigationKeepsStrategy ==
  (IsCall("Navigation") /\ last.raised) => versionManager = last.vmBefore

(***************************************************************************)
(* PlotlyChart.tsx: values.                                                *)
(***************************************************************************)
\* most points of a selection event
MaxPoints == 1
\* most pending timers of resetSelectionsCallback
MaxTimers == 2
\* most onUpdate callbacks the plotting library has yet to make
MaxInFlight == 2

\* an optional value that is not a string: absent (undefined, null), or
\* present
None == <<>>
Some(value) == <<value>>

\* PlotlyChartProto.SelectionMode; element.selectionMode, a list the code
\* only tests with includes() and length, is the set of its entries
Modes == {"POINTS", "BOX", "LASSO"}
\* the selected points of an event: a point of a scatter trace has a
\* pointIndex, a bar of a histogram has pointIndices
ScatterPoint1 == [pointIndex |-> Some(1), pointIndices |-> None]
HistogramBar == [pointIndex |-> None, pointIndices |-> Some(<<1, 2>>)]
EventPoints == {ScatterPoint1, HistogramBar}
\* the entries of event.selections; a lasso path "Mx,yLx,y...Z" is the
\* sequence of its x,y pairs
RectSelection ==
  [type |-> "rect", xref |-> "x", yref |-> "y", x0 |-> 1, x1 |-> 2, y0 |-> 3, y1 |-> 4]
PathSelection ==
  [type |-> "path", xref |-> "x", yref |-> "y", path |-> <<<<1, 3>>, <<2, 4>>>>]
EventSelections ==
  {None, Some(<<>>), Some(<<RectSelection>>), Some(<<PathSelection>>),
   Some(<<RectSelection, PathSelection>>)}
\* Plotly.PlotSelectionEvent, or none
NoEvent == <<>>
SelectionEvents ==
  {NoEvent} \cup [points : SeqsUpTo(EventPoints, MaxPoints), selections : EventSelections]

\* Minimum width for Plotly charts
MIN_WIDTH == 150

\* a > b ? a : b and a < b ? a : b
Max(a, b) == IF a >= b THEN a ELSE b
Min(a, b) == IF a <= b THEN a ELSE b

(***************************************************************************)
(* JSON.stringify of the widget state.                                     *)
(***************************************************************************)
RECURSIVE Join(_, _)
\* Array.prototype.join
Join(strs, sep) ==
  IF strs = <<>> THEN ""
  ELSE IF Len(strs) = 1 THEN strs[1]
  ELSE strs[1] \o sep \o Join(Tail(strs), sep)
\* the decimal digits of a small number
NumberJson(n) ==
  CASE n = 0 -> "0" [] n = 1 -> "1" [] n = 2 -> "2" [] n = 3 -> "3" [] n = 4 -> "4"
\* [a, b, ...]
ArrayJson(strs) == "[" \o Join(strs, ",") \o "]"
NumbersJson(ns) == ArrayJson([i \in 1..Len(ns) |-> NumberJson(ns[i])])
\* a selected point: keysToSnakeCase of the point without data and fullData;
\* JSON.stringify leaves undefined values out
PointJson(point) ==
  "{" \o Join((IF point.pointIndex = None THEN <<>>
               ELSE << "\"point_index\":" \o NumberJson(point.pointIndex[1]) >>)
              \o (IF point.pointIndices = None THEN <<>>
                  ELSE << "\"point_indices\":" \o NumbersJson(point.pointIndices[1]) >>),
              ",") \o "}"
\* a PlotlySelection {xref, yref, x, y}
SelectionJson(sel) ==
  "{\"xref\":\"" \o sel.xref \o "\",\"yref\":\"" \o sel.yref
    \o "\",\"x\":" \o NumbersJson(sel.x) \o ",\"y\":" \o NumbersJson(sel.y) \o "}"
\* JSON.stringify(selectionState)
WidgetStateJson(state) ==
  "{\"select\":{\"points\":"
    \o ArrayJson([i \in 1..Len(state.points) |-> PointJson(state.points[i])])
    \o ",\"point_indices\":" \o NumbersJson(state.point_indices)
    \o ",\"box\":" \o ArrayJson([i \in 1..Len(state.box) |-> SelectionJson(state.box[i])])
    \o ",\"lasso\":"
    \o ArrayJson([i \in 1..Len(state.lasso) |-> SelectionJson(state.lasso[i])])
    \o "}}"

(***************************************************************************)
(* handleSelection and sendEmptySelection.                                 *)
(***************************************************************************)
\* parseLassoPath(pathData)
ParseLassoPath(path) ==
  [x |-> [i \in 1..Len(path) |-> path[i][1]], y |-> [i \in 1..Len(path) |-> path[i][2]]]
\* parseBoxSelection(selection)
ParseBoxSelection(selection) ==
  IF {"x0", "x1", "y0", "y1"} \subseteq DOMAIN selection
  THEN [x |-> <<selection.x0, selection.x1>>, y |-> <<selection.y0, selection.y1>>]
  ELSE [x |-> <<>>, y |-> <<>>]

RECURSIVE AddAll(_, _)
\* Set.add of each item in turn: the set as Array.from lists it
AddAll(indices, items) ==
  IF items = <<>> THEN indices
  ELSE AddAll(IF \E i \in 1..Len(indices) : indices[i] = Head(items)
              THEN indices ELSE Append(indices, Head(items)),
              Tail(items))
RECURSIVE SelectedPointIndices(_, _)
\* points.forEach: pointIndex, then every item of pointIndices
SelectedPointIndices(indices, points) ==
  IF points = <<>> THEN indices
  ELSE LET point == Head(points)
           one == IF point.pointIndex = None THEN indices
                  ELSE AddAll(indices, <<point.pointIndex[1]>>)
           all == IF point.pointIndices # None /\ Len(point.pointIndices[1]) > 0
                  THEN AddAll(one, point.pointIndices[1]) ELSE one
       IN SelectedPointIndices(all, Tail(points))
\* selections.forEach for the entries of one type
SelectedOfType(selections, type) ==
  IF selections = None THEN <<>>
  ELSE LET Parsed(sel) == IF type = "rect" THEN ParseBoxSelection(sel)
                          ELSE ParseLassoPath(sel.path)
       IN [i \in 1..Len(SelectSeq(selections[1], LAMBDA s : s.type = type)) |->
             LET sel == SelectSeq(selections[1], LAMBDA s : s.type = type)[i]
             IN [xref |-> sel.xref, yref |-> sel.yref,
                 x |-> Parsed(sel).x, y |-> Parsed(sel).y]]
\* the selectionState handleSelection builds from the event
SelectionState(event) ==
  [points |-> event.points,
   point_indices |-> SelectedPointIndices(<<>>, event.points),
   box |-> SelectedOfType(event.selections, "rect"),
   lasso |-> SelectedOfType(event.selections, "path")]
\* the empty selection state of sendEmptySelection
EmptySelectionState == [points |-> <<>>, point_indices |-> <<>>, box |-> <<>>, lasso |-> <<>>]

\* a JavaScript array used as a condition: every array is truthy
TruthyArray(array) == TRUE

\* ShouldUpdate that updates whatever the stored value is
ShouldUpdate_Always(currentSelectionState, newSelectionState) == TRUE
\* currentSelectionState !== newSelectionState
ShouldUpdate(currentSelectionState, newSelectionState) ==
  currentSelectionState # newSelectionState

\* a call of widgetMgr.setStringValue(element, value), or none
NoUpdate == [set |-> FALSE, value |-> Null]
SetStringValue(value) == [set |-> TRUE, value |-> value]

\* handleSelection(event, widgetMgr, element, fragmentId)
HandleSelection(event, currentSelectionState, selectionMode) ==
  IF event = NoEvent THEN NoUpdate
  ELSE LET selectionState == SelectionState(event)
           newSelectionState == WidgetStateJson(selectionState)
       IN IF TruthyArray(selectionState.box) /\ "BOX" \notin selectionMode
          THEN NoUpdate
          ELSE IF TruthyArray(selectionState.lasso) /\ "LASSO" \notin selectionMode
          THEN NoUpdate
          ELSE IF ShouldUpdate(currentSelectionState, newSelectionState)
          THEN SetStringValue(newSelectionState)
          ELSE NoUpdate

\* sendEmptySelection(widgetMgr, element, fragmentId)
SendEmptySelection(currentSelectionState) ==
  LET newSelectionState == WidgetStateJson(EmptySelectionState)
  IN IF ShouldUpdate(currentSelectionState, newSelectionState)
     THEN SetStringValue(newSelectionState)
     ELSE NoUpdate

(***************************************************************************)
(* PlotlyFigure: the figure, its rendering and its effects.                *)
(***************************************************************************)
\* a JavaScript string used as a condition
TruthyString(s) == s # Null /\ s # ""

\* isSelectionActivated = element.selectionMode.length > 0 && !disabled
IsSelectionActivated(el, pr) == el.selectionMode # {} /\ ~pr.disabled

\* initialFigureSpec = JSON.parse(element.figure.spec): two traces, the
\* layout the user gave
InitialFigureSpec(el) ==
  [data |-> << [selectedpoints |-> None], [selectedpoints |-> None] >>,
   layout |-> [clickmode |-> el.layout.clickmode,
               hovermode |-> el.layout.hovermode,
               dragmode |-> el.layout.dragmode,
               width |-> el.layout.width,
               height |-> el.layout.height,
               selections |-> None]]

\* applyTheming(plotlyFigure, chartTheme, theme): colours and fonts, none of
\* the fields of a figure kept here
ApplyTheming(fig) == fig

\* calculatedWidth
CalculatedWidth(el, pr) ==
  LET initialFigureSpec == InitialFigureSpec(el)
      specWidth == IF initialFigureSpec.layout.width = None THEN pr.width
                   ELSE initialFigureSpec.layout.width[1]
      calculatedWidth == Max(IF el.useContainerWidth THEN pr.width
                             ELSE Min(specWidth, pr.width),
                             MIN_WIDTH)
  IN IF pr.isFullScreen THEN pr.width ELSE calculatedWidth
\* calculatedHeight
CalculatedHeight(el, pr) ==
  IF pr.isFullScreen THEN pr.height ELSE InitialFigureSpec(el).layout.height
\* the update of the figure's height and width while rendering
SizeFigure(fig, el, pr) ==
  LET calculatedWidth == Some(CalculatedWidth(el, pr))
      calculatedHeight == CalculatedHeight(el, pr)
  IN IF fig.layout.height # calculatedHeight \/ fig.layout.width # calculatedWidth
     THEN [fig EXCEPT !.layout.height = calculatedHeight,
                      !.layout.width = calculatedWidth]
     ELSE fig

\* the effect of [element.id]: click, hover and drag mode for the selection
\* modes
SelectionModeEffect(fig, el, pr) ==
  LET initialFigureSpec == InitialFigureSpec(el)
      isPointsSelectionActivated == "POINTS" \in el.selectionMode
      isBoxSelectionActivated == "BOX" \in el.selectionMode
      isLassoSelectionActivated == "LASSO" \in el.selectionMode
  IN IF IsSelectionActivated(el, pr)
     THEN [fig EXCEPT
             !.layout.clickmode =
               IF ~TruthyString(initialFigureSpec.layout.hovermode)
               THEN IF isPointsSelectionActivated THEN "event+select" ELSE "event"
               ELSE @,
             !.layout.hovermode =
               IF ~TruthyString(initialFigureSpec.layout.hovermode)
               THEN "closest" ELSE @,
             !.layout.dragmode =
               IF ~TruthyString(initialFigureSpec.layout.dragmode)
               THEN IF isPointsSelectionActivated THEN "pan"
                    ELSE IF isBoxSelectionActivated THEN "select"
                    ELSE IF isLassoSelectionActivated THEN "lasso"
                    ELSE "pan"
               ELSE @]
     ELSE [fig EXCEPT !.layout.clickmode = initialFigureSpec.layout.clickmode,
                      !.layout.hovermode = initialFigureSpec.layout.hovermode,
                      !.layout.dragmode = initialFigureSpec.layout.dragmode]

\* the effect of [element.formId, widgetMgr, resetSelectionsCallback]:
\* whether it connects resetSelectionsCallback to the form-cleared signal
FormClearEffect(el, pr) == ~(el.formId = "" \/ ~IsSelectionActivated(el, pr))

\* the effect of [plotlyFigure.layout?.dragmode]; dragmode is the drag mode
\* of the figure that was rendered
ClickmodeEffect(fig, dragmode, el, pr) ==
  IF ~IsSelectionActivated(el, pr) THEN fig
  ELSE LET clickmode == IF dragmode = "select" \/ dragmode = "lasso"
                        THEN "event" ELSE "event+select"
       IN [fig EXCEPT !.layout.clickmode = clickmode]

\* a render after the state or the props changed: the figure is sized, and
\* the drag-mode effect runs when the drag mode is not the one rendered
\* before
Rerender(fig, renderedDragmode, el, pr) ==
  LET sized == SizeFigure(fig, el, pr)
  IN IF sized.layout.dragmode # renderedDragmode
     THEN ClickmodeEffect(sized, sized.layout.dragmode, el, pr)
     ELSE sized

\* the first render and its effects, in the order of the source: the figure
\* state, its size, theme effect, selection-mode effect, drag-mode effect,
\* and the render that follows them
MountedFigure(el, pr) ==
  LET first == SizeFigure(ApplyTheming(InitialFigureSpec(el)), el, pr)
      themed == ApplyTheming(first)
      moded == SelectionModeEffect(themed, el, pr)
      clicked == ClickmodeEffect(moded, first.layout.dragmode, el, pr)
  IN Rerender(clicked, first.layout.dragmode, el, pr)

\* ResetFigure that keeps layout.selections
ResetFigure_KeepsSelections(fig) ==
  [fig EXCEPT !.data = [i \in 1..Len(fig.data) |->
                          [fig.data[i] EXCEPT !.selectedpoints = None]]]
\* the figure the timer of resetSelectionsCallback sets
ResetFigure(fig) ==
  [fig EXCEPT !.data = [i \in 1..Len(fig.data) |->
                          [fig.data[i] EXCEPT !.selectedpoints = None]],
              !.layout.selections = Some(<<>>)]

\* the flag onDeselect passes to resetSelectionsCallback, here passed as
\* true
DeselectResetsFigure_True == TRUE
\* the flag onDeselect passes to resetSelectionsCallback
DeselectResetsFigure == FALSE
\* the default of the parameter resetSelectionInFigure, which onDoubleClick
\* and the form-cleared signal leave out
ResetSelectionInFigureDefault == TRUE

\* a figure of the plotting library: the rendered figure with the user's
\* selection drawn in it, or with none
SelectionMarks == {"selected", "cleared"}
LibraryFigure(fig, marks) ==
  IF marks = "selected"
  THEN [fig EXCEPT !.data = [i \in 1..Len(fig.data) |->
                               [fig.data[i] EXCEPT !.selectedpoints = Some(<<0>>)]],
                   !.layout.selections = Some(<<"rect">>)]
  ELSE [fig EXCEPT !.data = [i \in 1..Len(fig.data) |->
                               [fig.data[i] EXCEPT !.selectedpoints = None]],
                   !.layout.selections = None]
\* the figure holds no selection
IsCleared(fig) ==
  /\ \A i \in 1..Len(fig.data) : fig.data[i].selectedpoints = None
  /\ fig.layout.selections \in {None, Some(<<>>)}

(***************************************************************************)
(* The chart's events.                                                     *)
(***************************************************************************)
Mounted == element # <<>>

\* what a step of the chart records: its kind, its event, whether selection
\* was activated, the call of setStringValue it made and the value that
\* call replaced, and whether it is a double click or a timer or callback
\* after one
ChartStep(kind, event, update, afterDoubleClick) ==
  [kind |-> kind, event |-> event,
   activated |-> IsSelectionActivated(element, props),
   set |-> update.set, value |-> update.value,
   replaced |-> IF update.set THEN stringValue ELSE Null,
   afterDoubleClick |-> afterDoubleClick]

\* the widget manager after an update
Stored(update) == IF update.set THEN update.value ELSE stringValue

\* PlotlyFigure is rendered for the first time
Mount(el, pr) ==
  /\ ~Mounted
  /\ element' = el
  /\ props' = pr
  /\ plotlyFigure' = MountedFigure(el, pr)
  /\ formClearListener' = FormClearEffect(el, pr)
  /\ chartLast' = [kind |-> "mount", event |-> NoEvent,
                   activated |-> IsSelectionActivated(el, pr),
                   set |-> FALSE, value |-> Null, replaced |-> Null,
                   afterDoubleClick |-> FALSE]
  /\ UNCHANGED <<stringValue, resetTimers, inFlight>>
  /\ UNCHANGED navigationVars

\* onSelected(event)
Selected(event) ==
  /\ Mounted
  /\ LET update == IF IsSelectionActivated(element, props)
                   THEN HandleSelection(event, stringValue, element.selectionMode)
                   ELSE NoUpdate
     IN /\ stringValue' = Stored(update)
        /\ chartLast' = ChartStep("selected", event, update, FALSE)
  /\ UNCHANGED <<element, props, plotlyFigure, formClearListener, resetTimers, inFlight>>
  /\ UNCHANGED navigationVars

\* resetSelectionsCallback(resetSelectionInFigure) called for the step kind
ResetSelections(kind, resetSelectionInFigure) ==
  LET update == SendEmptySelection(stringValue)
  IN /\ stringValue' = Stored(update)
     /\ resetTimers' = IF resetSelectionInFigure THEN resetTimers + 1 ELSE resetTimers
     /\ chartLast' = ChartStep(kind, NoEvent, update, kind = "doubleClick")
\* a step that calls no handler
Ignored(kind) ==
  /\ chartLast' = ChartStep(kind, NoEvent, NoUpdate, FALSE)
  /\ UNCHANGED <<stringValue, resetTimers>>

\* onDoubleClick
DoubleClick ==
  /\ Mounted
  /\ resetTimers < MaxTimers
  /\ IF IsSelectionActivated(element, props)
     THEN ResetSelections("doubleClick", ResetSelectionInFigureDefault)
     ELSE Ignored("doubleClick")
  /\ UNCHANGED <<element, props, plotlyFigure, formClearListener, inFlight>>
  /\ UNCHANGED navigationVars

\* onDeselect
Deselect ==
  /\ Mounted
  /\ resetTimers < MaxTimers
  /\ IF IsSelectionActivated(element, props)
     THEN ResetSelections("deselect", DeselectResetsFigure)
     ELSE Ignored("deselect")
  /\ UNCHANGED <<element, props, plotlyFigure, formClearListener, inFlight>>
  /\ UNCHANGED navigationVars

\* the form the chart belongs to is cleared: the form-cleared signal calls
\* the listeners connected to it
FormClear ==
  /\ Mounted
  /\ element.formId # ""
  /\ resetTimers < MaxTimers
  /\ IF formClearListener
     THEN ResetSelections("formClear", ResetSelectionInFigureDefault)
     ELSE Ignored("formClear")
  /\ UNCHANGED <<element, props, plotlyFigure, formClearListener, inFlight>>
  /\ UNCHANGED navigationVars

\* a timer of resetSelectionsCallback fires
ResetTimer ==
  /\ Mounted
  /\ resetTimers > 0
  /\ resetTimers' = resetTimers - 1
  /\ plotlyFigure' = Rerender(ResetFigure(plotlyFigure), plotlyFigure.layout.dragmode,
                              element, props)
  /\ chartLast' = ChartStep("timer", NoEvent, NoUpdate, chartLast.afterDoubleClick)
  /\ UNCHANGED <<element, props, stringValue, formClearListener, inFlight>>
  /\ UNCHANGED navigationVars

\* the plotting library changes its figure and will call onUpdate with it
LibraryUpdate(marks) ==
  /\ Mounted
  /\ Len(inFlight) < MaxInFlight
  /\ inFlight' = Append(inFlight, LibraryFigure(plotlyFigure, marks))
  /\ chartLast' = ChartStep("libraryUpdate", NoEvent, NoUpdate, FALSE)
  /\ UNCHANGED <<element, props, plotlyFigure, stringValue, formClearListener, resetTimers>>
  /\ UNCHANGED navigationVars

\* onUpdate(figure)
OnUpdate ==
  /\ Mounted
  /\ inFlight # <<>>
  /\ inFlight' = Tail(inFlight)
  /\ plotlyFigure' = Rerender(Head(inFlight), plotlyFigure.layout.dragmode, element, props)
  /\ chartLast' = ChartStep("update", NoEvent, NoUpdate, chartLast.afterDoubleClick)
  /\ UNCHANGED <<element, props, stringValue, formClearListener, resetTimers>>
  /\ UNCHANGED navigationVars

\* the parent renders the chart with other props
Reprops(kind, pr) ==
  /\ Mounted
  /\ pr # props
  /\ props' = pr
  /\ plotlyFigure' = Rerender(plotlyFigure, plotlyFigure.layout.dragmode, element, pr)
  /\ chartLast' = [ChartStep(kind, NoEvent, NoUpdate, FALSE) EXCEPT
                     !.activated = IsSelectionActivated(element, pr)]
  /\ UNCHANGED <<element, stringValue, formClearListener, resetTimers, inFlight>>
  /\ UNCHANGED navigationVars
\* the chart is disabled or enabled
ToggleDisabled == Reprops("disabled", [props EXCEPT !.disabled = ~@])
\* the container gets another width
Resize(width) == Reprops("width", [props EXCEPT !.width = width])
\* the chart enters or leaves fullscreen
ToggleFullScreen == Reprops("fullscreen", [props EXCEPT !.isFullScreen = ~@])

(***************************************************************************)
(* The charts and the specifications of the chart.                         *)
(***************************************************************************)
\* the layout of a figure spec that sets no mode and no size
PlainLayout ==
  [clickmode |-> Null, hovermode |-> Null, dragmode |-> Null,
   width |-> None, height |-> None]
\* the props of a chart in a container 400 wide
PlainProps == [disabled |-> FALSE, width |-> 400, height |-> Some(600), isFullScreen |-> FALSE]

\* charts of every selection mode, in a form or not, disabled or not
WidgetElements ==
  [selectionMode : SUBSET Modes, formId : {"", "form"}, useContainerWidth : {FALSE},
   layout : {PlainLayout}]
WidgetProps == {[PlainProps EXCEPT !.disabled = d] : d \in BOOLEAN}

\* charts with all selection modes or none
FigureElements ==
  [selectionMode : {Modes, {}}, formId : {""}, useContainerWidth : {FALSE},
   layout : {PlainLayout}]

\* charts whose figure spec sets click, hover and drag mode, or does not
UserClickmodes == {Null, "none", "event+select"}
UserHovermodes == {Null, "x"}
UserDragmodes == {Null, "zoom", "select", "lasso"}
LayoutElements ==
  [selectionMode : SUBSET Modes, formId : {""}, useContainerWidth : {FALSE},
   layout : {[PlainLayout EXCEPT !.clickmode = c, !.hovermode = h, !.dragmode = d] :
               c \in UserClickmodes, h \in UserHovermodes, d \in UserDragmodes}]

\* charts of every size in containers of every width
ContainerWidths == {-10, 0, 100, 150, 400}
SpecWidths == {None, Some(100), Some(300)}
SpecHeights == {None, Some(300)}
SizedElements ==
  [selectionMode : {{}}, formId : {""}, useContainerWidth : BOOLEAN,
   layout : {[PlainLayout EXCEPT !.width = w, !.height = h] :
               w \in SpecWidths, h \in SpecHeights}]
SizedProps ==
  {[PlainProps EXCEPT !.width = w, !.isFullScreen = f] :
     w \in ContainerWidths, f \in BOOLEAN}

\* selection events, double clicks, deselects and form clears on a chart
\* whose plotting library makes no update callback
NextChartWidget ==
  \/ \E el \in WidgetElements, pr \in WidgetProps : Mount(el, pr)
  \/ \E event \in SelectionEvents : Selected(event)
  \/ DoubleClick
  \/ Deselect
  \/ FormClear
  \/ ResetTimer
  \/ ToggleDisabled

SpecChartWidget == Init /\ [][NextChartWidget]_vars

\* double clicks and deselects on a chart whose plotting library calls
\* onUpdate
NextChartFigure ==
  \/ \E el \in FigureElements : Mount(el, PlainProps)
  \/ DoubleClick
  \/ Deselect
  \/ ResetTimer
  \/ \E marks \in SelectionMarks : LibraryUpdate(marks)
  \/ OnUpdate

SpecChartFigure == Init /\ [][NextChartFigure]_vars

\* charts of every layout and size, resized and put in fullscreen
NextChartLayout ==
  \/ \E el \in LayoutElements, pr \in WidgetProps : Mount(el, pr)
  \/ \E el \in SizedElements, pr \in SizedProps : Mount(el, pr)
  \/ \E width \in ContainerWidths : Resize(width)
  \/ ToggleFullScreen

SpecChartLayout == Init /\ [][NextChartLayout]_vars

(***************************************************************************)
(* Properties of the chart.                                                *)
(***************************************************************************)
\* JSON.stringify of the empty selection state
EmptySelectionJson ==
  "{\"select\":{\"points\":[],\"point_indices\":[],\"box\":[],\"lasso\":[]}}"

\* C21: on a chart with activated selection whose selection mode includes
\* POINTS, after a selection event that carries at least one point the
\* widget's string value is the serialized selection of that event.
C21_PointsSelectionIsSent ==
  ( /\ chartLast.kind = "selected" /\ chartLast.activated
    /\ "POINTS" \in element.selectionMode
    /\ chartLast.event # NoEvent
    /\ Len(chartLast.event.points) >= 1 ) =>
      stringValue = WidgetStateJson(SelectionState(chartLast.event))

\* C22: after a form clear, the widget's string value is the empty selection
\* if selection was activated when the form was cleared, and
\* setStringValue was not called if it was not.
C22_FormClearResetsWhenActivated ==
  chartLast.kind = "formClear" =>
    IF chartLast.activated THEN stringValue = EmptySelectionJson
    ELSE ~chartLast.set

\* C23: setStringValue is never called with the value the widget manager
\* stores for the element, and the value it is called with is stored.
C23_UpdatesOnlyChanges ==
  chartLast.set =>
    /\ chartLast.value # chartLast.replaced
    /\ stringValue = chartLast.value
\* a selection event that repeats the stored selection made no update
C23_Witness ==
  /\ chartLast.kind = "selected" /\ chartLast.activated /\ ~chartLast.set
  /\ chartLast.event # NoEvent
  /\ stringValue # EmptySelectionJson
  /\ stringValue = WidgetStateJson(SelectionState(chartLast.event))

\* C24: with selection activated, a double click stores the empty selection
\* and starts one timer without changing the figure, and a deselect stores
\* the empty selection, starts no timer and does not change the figure; a
\* timer that fires leaves a figure whose traces have no selectedpoints and
\* whose layout.selections is empty, and changes no widget value.
C24_DoubleClickAndDeselect ==
  [][ /\ (chartLast'.kind = "doubleClick" /\ chartLast'.activated) =>
           /\ stringValue' = EmptySelectionJson
           /\ resetTimers' = resetTimers + 1
           /\ plotlyFigure' = plotlyFigure
      /\ (chartLast'.kind = "deselect" /\ chartLast'.activated) =>
           /\ stringValue' = EmptySelectionJson
           /\ resetTimers' = resetTimers
           /\ plotlyFigure' = plotlyFigure
      /\ chartLast'.kind = "timer" =>
           /\ resetTimers' = resetTimers - 1
           /\ stringValue' = stringValue
           /\ \A i \in 1..Len(plotlyFigure'.data) :
                plotlyFigure'.data[i].selectedpoints = None
           /\ plotlyFigure'.layout.selections = Some(<<>>)
    ]_vars
\* the timer of a double click has reset the figure
C24_Witness ==
  /\ chartLast.kind = "timer" /\ chartLast.afterDoubleClick
  /\ resetTimers = 0
  /\ plotlyFigure.layout.selections = Some(<<>>)
  /\ stringValue = EmptySelectionJson

\* C25: once the timer of a double click has fired and the plotting library
\* has made every onUpdate callback it had yet to make, the figure holds no
\* selection.
C25_ResetIsFinal ==
  (chartLast.afterDoubleClick /\ resetTimers = 0 /\ inFlight = <<>>) =>
    IsCleared(plotlyFigure)

\* C26: on a chart with activated selection whose figure spec sets
\* layout.clickmode, the figure has that clickmode after the first render
\* and its effects.
C26_UserClickmodeKept ==
  ( /\ chartLast.kind = "mount" /\ chartLast.activated
    /\ TruthyString(element.layout.clickmode) ) =>
      plotlyFigure.layout.clickmode = element.layout.clickmode

\* C27: the width of the figure a mounted chart renders is at least 150.
C27_MinimumWidth ==
  Mounted => plotlyFigure.layout.width[1] >= 150
====
